---- MODULE Spec2Model ----
(***************************************************************************)
(* Model of display_mode_gen.py: the generator that turns the CTA-861      *)
(* tables 1-3 and the VESA DMT blocks into two arrays of DisplayMode       *)
(* literals.  The script is one straight-line batch run: three passes over *)
(* the CTA-861 tables that share the dict cta_vic_mode, one pass over the  *)
(* VESA blocks, then the emitter.  A failed assert or lookup raises and    *)
(* ends the run.                                                           *)
(*                                                                         *)
(* Text fields are held as the numbers they denote, in fixed point:        *)
(*   kHz fields in 1/1000 kHz, Hz fields in 1/10000 Hz, MHz fields in      *)
(*   1/10000 MHz, fractional line counts in 1/10 line, usec fields in      *)
(*   nsec, msec fields in usec.                                            *)
(* Float comparisons are evaluated exactly, as comparisons of fractions.   *)
(***************************************************************************)
EXTENDS Integers, Sequences, FiniteSets, TLC

VARIABLES
    pc,              \* position of the script
    n,               \* rows (blocks) of the current table read so far
    cur,             \* the row or block being processed and the table of
                     \* the row read last; no row once a loop has ended
    cta_vic_mode,    \* dict VIC -> DisplayMode
    vesa_dmt_modes,  \* list of DisplayMode
    opened,          \* the output destination has been opened
    output,          \* arrays written so far: <<[table, modes]>>
    applied,         \* history: per VIC, the last row that completed in each
                     \* table, how many did, and how many halved the record
    pre3,            \* history: cta_vic_mode as the Table-2 pass left it
    vesa_src         \* history: the block behind each entry of vesa_dmt_modes

vars == <<pc, n, cur, cta_vic_mode, vesa_dmt_modes, opened, output,
          applied, pre3, vesa_src>>

\* Bounds of the exploration: rows read per table, blocks read.
MaxRows1 == 2
MaxRows2 == 2
MaxRows3 == 2
MaxBlocks == 2

(***************************************************************************)
(* Arithmetic                                                              *)
(***************************************************************************)

Abs(x) == IF x < 0 THEN -x ELSE x

\* a/b < c/d for a, c >= 0 and b, d > 0, by the Euclidean expansion of both
\* fractions (no product is formed, so no intermediate exceeds its inputs).
RECURSIVE FracLess(_, _, _, _)
FracLess(a, b, c, d) ==
    LET qa == a \div b
        qc == c \div d
        ra == a % b
        rc == c % d
    IN  IF qa # qc THEN qa < qc
        ELSE IF rc = 0 THEN FALSE
        ELSE IF ra = 0 THEN TRUE
        ELSE FracLess(d, rc, b, ra)

\* |a/b - c/d| < 1/t for a, c >= 0 and b, d, t > 0:
\*   c/d - 1/t < a/b  and  a/b < c/d + 1/t.
FracNear(a, b, c, d, t) ==
    /\ FracLess(a, b, c * t + d, d * t)
    /\ \/ c * t < d
       \/ FracLess(c * t - d, d * t, a, b)

\* round(a/b): to nearest, ties to even (Python 3 round on a float).
RoundDiv(a, b) ==
    LET q == a \div b
        r == a % b
    IN  IF 2 * r < b THEN q
        ELSE IF 2 * r > b THEN q + 1
        ELSE IF q % 2 = 0 THEN q ELSE q + 1

\* int(float(field) * 1e3) for a field held in 1/10000: truncation.  For
\* every clock field of the rows and blocks below the double product is the
\* exact product, so the truncation is that of the decimal value.
KhzOfMhzAlt(clk4) == clk4 \div 100
KhzOfMhz(clk4) == clk4 \div 10

\* 2 ** -doubling[1]
IDouble(mode) == IF mode.doubling[2] < 0 THEN 2 ELSE 1

\* DisplayMode(): the dataclass defaults.
DisplayMode ==
    [size |-> <<0, 0>>, scan_size |-> <<0, 0>>,
     sync_start |-> <<0, 0>>, sync_end |-> <<0, 0>>,
     sync_polarity |-> <<0, 0>>, doubling |-> <<0, 0>>,
     aspect |-> <<0, 0>>, pixel_khz |-> 0, nominal_hz |-> 0]

\* The history kept for one VIC: no row has completed for it yet.
NoRow == [vics |-> <<>>]
NoRows == [row |-> [t1 |-> NoRow, t2 |-> NoRow, t3 |-> NoRow],
           cnt |-> [t1 |-> 0, t2 |-> 0, t3 |-> 0],
           halved |-> 0]

\* d[k] = v for a dict d
Put(d, k, v) == (k :> v) @@ d

(***************************************************************************)
(* Source tables.  Each pass reads its next row from the rows below: rows  *)
(* of the tables in the script, and variants of them that a mistyped or    *)
(* differently pasted table would hold.                                    *)
(***************************************************************************)

\* fields[0], [1], [2], [3], [4], [5], [6], [7], [8], [9], [10] of a Table-1 line
T1Row(vics, w, h, scan, tw, hb, th, vb10, fh, fv, clk) ==
    [vics |-> vics, w |-> w, h |-> h, scan |-> scan, tw |-> tw, hb |-> hb,
     th |-> th, vb10 |-> vb10, fh |-> fh, fv |-> fv, clk |-> clk]

\* 4,69 1280 720 Prog 1650 370 750 30 45.000 60.0003 74.250
T1_4_69 == T1Row(<<4, 69>>, 1280, 720, "Prog", 1650, 370, 750, 300,
                 45000, 600003, 742500)
\* 6,7 1440 480 Int 1716 276 525 22.5 15.734 59.9403 27.000
T1_6_7 == T1Row(<<6, 7>>, 1440, 480, "Int", 1716, 276, 525, 225,
                15734, 599403, 270000)
\* 8,9 1440 240 Prog 1716 276 262 22 15.734 60.0543 27.000
T1_8_9a == T1Row(<<8, 9>>, 1440, 240, "Prog", 1716, 276, 262, 220,
                 15734, 600543, 270000)
\* 8,9 1440 240 Prog 1716 276 263 23 15.734 59.8263 27.000
T1_8_9b == T1Row(<<8, 9>>, 1440, 240, "Prog", 1716, 276, 263, 230,
                 15734, 598263, 270000)
\* VIC 5 with a vertical frequency 0.015 Hz above the derived field rate
T1_5_slack == T1Row(<<5>>, 1920, 1080, "Int", 2200, 280, 1125, 225,
                    33750, 600150, 742500)
\* VIC 6 alone, with a pixel clock of 27.0017 MHz
T1_6_odd == T1Row(<<6>>, 1440, 480, "Int", 1716, 276, 525, 225,
                  15734, 599403, 270017)
\* VIC 4 with a mistyped horizontal blank
T1_4_bad == T1Row(<<4>>, 1280, 720, "Prog", 1650, 371, 750, 300,
                  45000, 600003, 742500)
\* VIC 4 with a scan-type token that is neither Prog nor Int
T1_4_scan == T1Row(<<4>>, 1280, 720, "Foo", 1650, 370, 750, 300,
                   45000, 600003, 742500)

\* the lines of the table of few lines
Rows1Few == {T1_4_69, T1_6_7, T1_4_scan}

Rows1 == {T1_4_69, T1_6_7, T1_8_9a, T1_8_9b, T1_5_slack, T1_6_odd,
          T1_4_bad, T1_4_scan}

\* fields[0], [2], [3], [4], [5], [6], [7], [8], [9] of a Table-2 line
T2Row(vics, hfp, hsw, hbp, hpol, vfp, vsw, vbp, vpol) ==
    [vics |-> vics, hfp |-> hfp, hsw |-> hsw, hbp |-> hbp, hpol |-> hpol,
     vfp |-> vfp, vsw |-> vsw, vbp |-> vbp, vpol |-> vpol]

\* 4,69 2 110 40 220 P 5 5 20 P 1 CTA-770.3 [31] 1,2
T2_4_69 == T2Row(<<4, 69>>, 110, 40, 220, "P", 5, 5, 20, "P")
\* 5 4 88 44 148 P 2 5 15 P 1 CTA-770.3 [31] 1,2
T2_5 == T2Row(<<5>>, 88, 44, 148, "P", 2, 5, 15, "P")
\* 6,7 3 38 124 114 N 4 3 15 N 4 CTA-770.2 [30] 2,15
T2_6_7 == T2Row(<<6, 7>>, 38, 124, 114, "N", 4, 3, 15, "N")
\* 8,9 1 38 124 114 N 4 3 15 N 4 CTA-770.2 [30] 7,14,15,19
T2_8_9a == T2Row(<<8, 9>>, 38, 124, 114, "N", 4, 3, 15, "N")
\* 8,9 1 38 124 114 N 5 3 15 N 4 CTA-770.2 [30] 7,14,15,19
T2_8_9b == T2Row(<<8, 9>>, 38, 124, 114, "N", 5, 3, 15, "N")
\* VIC 4 with a mistyped horizontal back porch
T2_4_bad == T2Row(<<4>>, 110, 40, 221, "P", 5, 5, 20, "P")

\* VIC 4 with a vertical back porch 3 lines short of the Table-1 blank
T2_4_short == T2Row(<<4>>, 110, 40, 220, "P", 5, 5, 17, "P")
\* VIC 4 with a polarity token that is neither P nor N
T2_4_pol == T2Row(<<4>>, 110, 40, 220, "P", 5, 5, 20, "X")

\* the lines of the table of few lines
Rows2Few == {T2_4_69, T2_6_7}

Rows2 == {T2_4_69, T2_5, T2_6_7, T2_8_9a, T2_8_9b, T2_4_bad, T2_4_short,
          T2_4_pol}

(***************************************************************************)
(* CTA-861 Table 1 pass                                                    *)
(***************************************************************************)

\* history: row completed for vic in table t
AddRow(h, vic, t, row) ==
    LET old == IF vic \in DOMAIN h THEN h[vic] ELSE NoRows
    IN  Put(h, vic, [old EXCEPT !.row[t] = row, !.cnt[t] = @ + 1])

\* {"Prog": 0, "Int": -1}[fields[3]]
ScanDoublingAlt(tok) == IF tok = "Int" THEN -2 ELSE 0
ScanDoubling(tok) == IF tok = "Int" THEN -1 ELSE 0

\* abs(mode.pixel_khz / mode.scan_size[0] - float(fields[8])) < 1e-3
HFreqCheck(m, fh) ==
    /\ m.scan_size[1] > 0
    /\ FracNear(m.pixel_khz, m.scan_size[1], fh, 1000, 1000)

\* abs(mode.pixel_khz * 1e3 / mode.scan_size[0] / mode.scan_size[1]
\*     - float(fields[9]) / i_double) < 1e-2
VFreqCheck(m, fv) ==
    /\ m.scan_size[1] > 0
    /\ m.scan_size[2] > 0
    /\ FracNear(m.pixel_khz * 1000, m.scan_size[1] * m.scan_size[2],
                fv, 10000 * IDouble(m), 100)

\* the four asserts of the Table-1 loop body
T1CheckNoBlank(m, row) ==
    /\ HFreqCheck(m, row.fh)
    /\ VFreqCheck(m, row.fv)
T1Check(m, row) ==
    /\ m.scan_size[1] = m.size[1] + row.hb
    /\ 10 * m.scan_size[2] = 10 * m.size[2] + row.vb10 * IDouble(m)
    /\ HFreqCheck(m, row.fh)
    /\ VFreqCheck(m, row.fv)

\* the loop body for one VIC of a Table-1 line
T1VicFirst(d, row, vic) ==
    LET m0 == DisplayMode
        m1 == [m0 EXCEPT !.size = <<row.w, row.h>>,
                         !.scan_size = <<row.tw, row.th>>]
        m2 == [m1 EXCEPT !.doubling = <<0, ScanDoubling(row.scan)>>,
                         !.pixel_khz = KhzOfMhz(row.clk),
                         !.nominal_hz = RoundDiv(row.fv, 10000)]
    IN  IF vic \in DOMAIN d THEN [modes |-> d, ok |-> TRUE]
        ELSE IF row.scan \notin {"Prog", "Int"}
        THEN [modes |-> Put(d, vic, m1), ok |-> FALSE]
        ELSE [modes |-> Put(d, vic, m2), ok |-> T1Check(m2, row)]
T1Vic(d, row, vic) ==
    LET m0 == IF vic \in DOMAIN d THEN d[vic] ELSE DisplayMode
        m1 == [m0 EXCEPT !.size = <<row.w, row.h>>,
                         !.scan_size = <<row.tw, row.th>>]
        m2 == [m1 EXCEPT !.doubling = <<0, ScanDoubling(row.scan)>>,
                         !.pixel_khz = KhzOfMhz(row.clk),
                         !.nominal_hz = RoundDiv(row.fv, 10000)]
    IN  IF row.scan \notin {"Prog", "Int"}
        THEN [modes |-> Put(d, vic, m1), ok |-> FALSE]
        ELSE [modes |-> Put(d, vic, m2), ok |-> T1Check(m2, row)]

\* for vic in fields[0].split(","), from the i-th VIC on
RECURSIVE T1Vics(_, _, _, _)
T1Vics(d, h, row, i) ==
    IF i > Len(row.vics) THEN [modes |-> d, hist |-> h, ok |-> TRUE]
    ELSE LET r == T1Vic(d, row, row.vics[i])
         IN  IF ~r.ok THEN [modes |-> r.modes, hist |-> h, ok |-> FALSE]
             ELSE T1Vics(r.modes, AddRow(h, row.vics[i], "t1", row),
                         row, i + 1)

\* the script is in the Table-1 loop
InTable1Alt == pc \in {"table1", "table2"}
InTable1 == pc = "table1"

\* the loop body for one line of Table 1
Table1Step(row) ==
    /\ LET r == T1Vics(cta_vic_mode, applied, row, 1)
       IN  /\ cta_vic_mode' = r.modes
           /\ applied' = r.hist
           /\ cur' = [table |-> 1, row |-> row]
           /\ pc' = IF r.ok THEN "table1" ELSE "aborted"
    /\ n' = n + 1
    /\ UNCHANGED <<vesa_dmt_modes, opened, output, pre3, vesa_src>>

Table1Row ==
    /\ InTable1
    /\ n < MaxRows1
    /\ \E row \in Rows1 : Table1Step(row)

\* the same over a table of few lines
Table1RowFew ==
    /\ InTable1
    /\ n < MaxRows1
    /\ \E row \in Rows1Few : Table1Step(row)

Table1End ==
    /\ pc = "table1"
    /\ pc' = "table2"
    /\ n' = 0
    /\ cur' = [cur EXCEPT !.row = <<>>]
    /\ UNCHANGED <<cta_vic_mode, vesa_dmt_modes, opened, output,
                   applied, pre3, vesa_src>>

(***************************************************************************)
(* CTA-861 Table 2 pass                                                    *)
(***************************************************************************)

\* {"P": +1, "N": -1}[token]
PolarityFlipped(tok) == IF tok = "P" THEN -1 ELSE 1
Polarity(tok) == IF tok = "P" THEN 1 ELSE -1

\* assert 0 <= scan_size[1] - (sync_end[1] + int(fields[8]) * i_double) <= 2
VPorchCheckAbs(m, vbp) ==
    Abs(m.scan_size[2] - (m.sync_end[2] + vbp * IDouble(m))) <= 2
VPorchCheck(m, vbp) ==
    LET diff == m.scan_size[2] - (m.sync_end[2] + vbp * IDouble(m))
    IN  0 <= diff /\ diff <= 2

\* the two asserts of the Table-2 loop body
T2CheckNoH(m, row) == VPorchCheck(m, row.vbp)
T2Check(m, row) ==
    /\ m.scan_size[1] = m.sync_end[1] + row.hbp
    /\ VPorchCheck(m, row.vbp)

\* the loop body for one VIC of a Table-2 line
T2VicSetDefault(d, row, vic) ==
    LET m0 == IF vic \in DOMAIN d THEN d[vic] ELSE DisplayMode
        k  == IDouble(m0)
        ss == <<m0.size[1] + row.hfp, m0.size[2] + row.vfp * k>>
        se == <<ss[1] + row.hsw, ss[2] + row.vsw * k>>
        m2 == [m0 EXCEPT !.sync_start = ss, !.sync_end = se,
                         !.sync_polarity =
                           <<Polarity(row.hpol), Polarity(row.vpol)>>]
    IN  [modes |-> Put(d, vic, m2), ok |-> T2Check(m2, row)]
T2Vic(d, row, vic) ==
    IF vic \notin DOMAIN d THEN [modes |-> d, ok |-> FALSE]
    ELSE
    LET m0 == d[vic]
        k  == IDouble(m0)
        ss == <<m0.size[1] + row.hfp, m0.size[2] + row.vfp * k>>
        se == <<ss[1] + row.hsw, ss[2] + row.vsw * k>>
        m1 == [m0 EXCEPT !.sync_start = ss, !.sync_end = se]
        m2 == [m1 EXCEPT !.sync_polarity =
                           <<Polarity(row.hpol), Polarity(row.vpol)>>]
    IN  IF row.hpol \notin {"P", "N"} \/ row.vpol \notin {"P", "N"}
        THEN [modes |-> Put(d, vic, m1), ok |-> FALSE]
        ELSE [modes |-> Put(d, vic, m2), ok |-> T2Check(m2, row)]

RECURSIVE T2Vics(_, _, _, _)
T2Vics(d, h, row, i) ==
    IF i > Len(row.vics) THEN [modes |-> d, hist |-> h, ok |-> TRUE]
    ELSE LET r == T2Vic(d, row, row.vics[i])
         IN  IF ~r.ok THEN [modes |-> r.modes, hist |-> h, ok |-> FALSE]
             ELSE T2Vics(r.modes, AddRow(h, row.vics[i], "t2", row),
                         row, i + 1)

\* the loop body for one line of Table 2
Table2Step(row) ==
    /\ LET r == T2Vics(cta_vic_mode, applied, row, 1)
       IN  /\ cta_vic_mode' = r.modes
           /\ applied' = r.hist
           /\ cur' = [table |-> 2, row |-> row]
           /\ pc' = IF r.ok THEN "table2" ELSE "aborted"
    /\ n' = n + 1
    /\ UNCHANGED <<vesa_dmt_modes, opened, output, pre3, vesa_src>>

Table2Row ==
    /\ pc = "table2"
    /\ n < MaxRows2
    /\ \E row \in Rows2 : Table2Step(row)

\* the same over a table of few lines
Table2RowFew ==
    /\ pc = "table2"
    /\ n < MaxRows2
    /\ \E row \in Rows2Few : Table2Step(row)

Table2End ==
    /\ pc = "table2"
    /\ pc' = "table3"
    /\ n' = 0
    /\ pre3' = cta_vic_mode
    /\ cur' = [cur EXCEPT !.row = <<>>]
    /\ UNCHANGED <<cta_vic_mode, vesa_dmt_modes, opened, output,
                   applied, vesa_src>>

(***************************************************************************)
(* CTA-861 Table 3 pass                                                    *)
(***************************************************************************)

\* fields[0]: a token that int() accepts, or one it rejects ("220-255")
IntTok(v) == [kind |-> "int", val |-> v]
RangeTok(v) == [kind |-> "range", val |-> v]

\* fields[1]: a name such as 1280x720p or 720(1440)x480i (h is the width
\* before the parenthesis, x the width inside it), or another word
Name(h, v, letter) ==
    [word |-> "", h |-> h, paren |-> FALSE, x |-> 0, v |-> v,
     letter |-> letter]
NameX(h, x, v, letter) ==
    [word |-> "", h |-> h, paren |-> TRUE, x |-> x, v |-> v,
     letter |-> letter]
Marker(w) ==
    [word |-> w, h |-> 0, paren |-> FALSE, x |-> 0, v |-> 0, letter |-> ""]

\* one token of fields[4:]: a ratio h:v, or text holding "-" or ","
Ratio(h, v) == [kind |-> "ratio", h |-> h, v |-> v,
                hyphen |-> FALSE, comma |-> FALSE]
Text(hyphen, comma) == [kind |-> "text", h |-> 0, v |-> 0,
                        hyphen |-> hyphen, comma |-> comma]

T3Row(vic, name, aspect, pix) ==
    [vic |-> vic, name |-> name, aspect |-> aspect, pix |-> pix]

\* 4 1280x720p 59.94Hz/60Hz 16:9 1:1
T3_4 == T3Row(IntTok(4), Name(1280, 720, "p"), <<16, 9>>, <<Ratio(1, 1)>>)
\* 69 1280x720p 59.94Hz/60Hz 64:27 4:3
T3_69 == T3Row(IntTok(69), Name(1280, 720, "p"), <<64, 27>>, <<Ratio(4, 3)>>)
\* 5 1920x1080i 59.94Hz/60Hz 16:9 1:1
T3_5 == T3Row(IntTok(5), Name(1920, 1080, "i"), <<16, 9>>, <<Ratio(1, 1)>>)
\* 6 720(1440)x480i 59.94Hz/60Hz 4:3 8:9
T3_6 == T3Row(IntTok(6), NameX(720, 1440, 480, "i"), <<4, 3>>,
              <<Ratio(8, 9)>>)
\* 7 720(1440)x480i 59.94Hz/60Hz 16:9 32:27
T3_7 == T3Row(IntTok(7), NameX(720, 1440, 480, "i"), <<16, 9>>,
              <<Ratio(32, 27)>>)
\* 8 720(1440)x240p 59.94Hz/60Hz 4:3 4:9
T3_8 == T3Row(IntTok(8), NameX(720, 1440, 240, "p"), <<4, 3>>,
              <<Ratio(4, 9)>>)
\* 9 720(1440)x240p 59.94Hz/60Hz 16:9 16:27
T3_9 == T3Row(IntTok(9), NameX(720, 1440, 240, "p"), <<16, 9>>,
              <<Ratio(16, 27)>>)
\* 220-255 Reserved for the Future
T3_reserved == T3Row(RangeTok(220), Marker("Reserved"), <<0, 0>>, <<>>)
\* 0 No Video Identification Code Available (Used with AVI InfoFrame only)
T3_no == T3Row(IntTok(0), Marker("No"), <<0, 0>>,
               <<Text(FALSE, FALSE), Text(FALSE, FALSE)>>)
\* 128-192 Forbidden
T3_forbidden == T3Row(RangeTok(128), Marker("Forbidden"), <<0, 0>>, <<>>)
\* a second row for VIC 6: 6 360(720)x480i 59.94Hz/60Hz 4:3 16:9
T3_6_again == T3Row(IntTok(6), NameX(360, 720, 480, "i"), <<4, 3>>,
                    <<Ratio(16, 9)>>)
\* VIC 4 named as interlaced: 4 1280x720i 59.94Hz/60Hz 16:9 1:1
T3_4_letter == T3Row(IntTok(4), Name(1280, 720, "i"), <<16, 9>>,
                     <<Ratio(1, 1)>>)

\* VIC 4 with the pixel-aspect field of the VIC 10 line, a range in three
\* tokens: 4 1280x720p 59.94Hz/60Hz 16:9 2:9 - 20:9 (the dash is U+2013)
T3_4_range == T3Row(IntTok(4), Name(1280, 720, "p"), <<16, 9>>,
                    <<Ratio(2, 9), Text(FALSE, FALSE), Ratio(20, 9)>>)
\* VIC 4 with the pixel-aspect field of the VIC 26 line, a range in one
\* token: 4 1280x720p 59.94Hz/60Hz 16:9 16:45-160:45
T3_4_hyphen == T3Row(IntTok(4), Name(1280, 720, "p"), <<16, 9>>,
                     <<Text(TRUE, FALSE)>>)

\* VIC 6 named as progressive: 6 720(1440)x480p 59.94Hz/60Hz 4:3 8:9
T3_6_letter == T3Row(IntTok(6), NameX(720, 1440, 480, "p"), <<4, 3>>,
                     <<Ratio(8, 9)>>)
\* VIC 4 with a capital letter: 4 1280x720P 59.94Hz/60Hz 16:9 1:1
T3_4_capital == T3Row(IntTok(4), Name(1280, 720, "P"), <<16, 9>>,
                      <<Ratio(1, 1)>>)
\* VIC 4 with a pixel aspect 0.000999 below 1: 4 1280x720p ... 16:9 1000:1001
T3_4_near == T3Row(IntTok(4), Name(1280, 720, "p"), <<16, 9>>,
                   <<Ratio(1000, 1001)>>)
\* VIC 4 with a pixel aspect 0.002 above 1: 4 1280x720p ... 16:9 501:500
T3_4_far == T3Row(IntTok(4), Name(1280, 720, "p"), <<16, 9>>,
                  <<Ratio(501, 500)>>)

Rows3 == {T3_4, T3_69, T3_5, T3_6, T3_7, T3_8, T3_9, T3_reserved, T3_no,
          T3_forbidden, T3_6_again, T3_4_letter, T3_6_letter, T3_4_capital,
          T3_4_near, T3_4_far}

\* the lines of the table of few lines
Rows3Few == {T3_4, T3_6, T3_no, T3_4_range, T3_4_hyphen}

\* fields[1] in ("Forbidden", "Reserved", "No")
SkippedNotNo(row) == row.name.word \in {"Forbidden", "Reserved"}
Skipped(row) == row.name.word \in {"Forbidden", "Reserved", "No"}

\* the pixel-doubling correction
HalveNoFlag(m, name_h, name_v) ==
    [m EXCEPT !.size = <<name_h, name_v>>,
              !.pixel_khz = @ \div 2,
              !.scan_size = <<@[1] \div 2, @[2]>>,
              !.sync_start = <<@[1] \div 2, @[2]>>,
              !.sync_end = <<@[1] \div 2, @[2]>>]
HalveNoKhz(m, name_h, name_v) ==
    [m EXCEPT !.size = <<name_h, name_v>>,
              !.doubling = <<1, @[2]>>,
              !.scan_size = <<@[1] \div 2, @[2]>>,
              !.sync_start = <<@[1] \div 2, @[2]>>,
              !.sync_end = <<@[1] \div 2, @[2]>>]
HalveNoSyncEnd(m, name_h, name_v) ==
    [m EXCEPT !.size = <<name_h, name_v>>,
              !.doubling = <<1, @[2]>>,
              !.pixel_khz = @ \div 2,
              !.scan_size = <<@[1] \div 2, @[2]>>,
              !.sync_start = <<@[1] \div 2, @[2]>>]
HalveBoth(m, name_h, name_v) ==
    [m EXCEPT !.size = <<name_h, name_v>>,
              !.doubling = <<1, @[2]>>,
              !.pixel_khz = @ \div 2,
              !.scan_size = <<@[1] \div 2, @[2] \div 2>>,
              !.sync_start = <<@[1] \div 2, @[2] \div 2>>,
              !.sync_end = <<@[1] \div 2, @[2] \div 2>>]
Halve(m, name_h, name_v) ==
    [m EXCEPT !.size = <<name_h, name_v>>,
              !.doubling = <<1, @[2]>>,
              !.pixel_khz = @ \div 2,
              !.scan_size = <<@[1] \div 2, @[2]>>,
              !.sync_start = <<@[1] \div 2, @[2]>>,
              !.sync_end = <<@[1] \div 2, @[2]>>]

\* the pixel aspect check at the end of the Table-3 loop body
PixCheckFirst(m, pix) ==
    IF Len(pix) = 0 THEN FALSE
    ELSE IF pix[1].hyphen \/ pix[1].comma THEN TRUE
    ELSE /\ pix[1].kind = "ratio"
         /\ pix[1].v # 0
         /\ m.size[1] # 0 /\ m.size[2] # 0 /\ m.aspect[2] # 0
         /\ FracNear(pix[1].h, pix[1].v,
                     m.aspect[1] * m.size[2], m.aspect[2] * m.size[1], 1000)
PixCheck(m, pix) ==
    IF Len(pix) > 1 THEN TRUE
    ELSE IF Len(pix) = 0 THEN FALSE
    ELSE IF pix[1].hyphen \/ pix[1].comma THEN TRUE
    ELSE /\ pix[1].kind = "ratio"
         /\ pix[1].v # 0
         /\ m.size[1] # 0 /\ m.size[2] # 0 /\ m.aspect[2] # 0
         /\ FracNear(pix[1].h, pix[1].v,
                     m.aspect[1] * m.size[2], m.aspect[2] * m.size[1], 1000)

\* the loop body for a Table-3 line that is not skipped
T3LineLetterLate(d, row) ==
    IF row.vic.kind # "int" THEN [modes |-> d, ok |-> FALSE]
    ELSE IF row.vic.val \notin DOMAIN d THEN [modes |-> d, ok |-> FALSE]
    ELSE
    LET vic == row.vic.val
        name == row.name
        m1 == [d[vic] EXCEPT !.aspect = row.aspect]
        name_x == IF name.paren THEN name.x ELSE name.h
        m2 == IF name_x # name.h THEN Halve(m1, name.h, name.v) ELSE m1
    IN  IF <<name_x, name.v>> # m1.size
        THEN [modes |-> Put(d, vic, m1), ok |-> FALSE]
        ELSE IF name_x # name.h /\ name_x # name.h * 2
        THEN [modes |-> Put(d, vic, m1), ok |-> FALSE]
        ELSE IF name.letter # (IF m1.doubling[2] < 0 THEN "i" ELSE "p")
        THEN [modes |-> Put(d, vic, m2), ok |-> FALSE]
        ELSE [modes |-> Put(d, vic, m2), ok |-> PixCheck(m2, row.pix)]
T3LinePixBefore(d, row) ==
    IF row.vic.kind # "int" THEN [modes |-> d, ok |-> FALSE]
    ELSE IF row.vic.val \notin DOMAIN d THEN [modes |-> d, ok |-> FALSE]
    ELSE
    LET vic == row.vic.val
        name == row.name
        m1 == [d[vic] EXCEPT !.aspect = row.aspect]
        name_x == IF name.paren THEN name.x ELSE name.h
        m2 == IF name_x # name.h THEN Halve(m1, name.h, name.v) ELSE m1
    IN  IF name.letter # (IF m1.doubling[2] < 0 THEN "i" ELSE "p")
        THEN [modes |-> Put(d, vic, m1), ok |-> FALSE]
        ELSE IF <<name_x, name.v>> # m1.size
        THEN [modes |-> Put(d, vic, m1), ok |-> FALSE]
        ELSE IF name_x # name.h /\ name_x # name.h * 2
        THEN [modes |-> Put(d, vic, m1), ok |-> FALSE]
        ELSE [modes |-> Put(d, vic, m2), ok |-> PixCheck(m1, row.pix)]
T3LineShared(d, row) ==
    IF row.vic.kind # "int" THEN [modes |-> d, ok |-> FALSE]
    ELSE IF row.vic.val \notin DOMAIN d THEN [modes |-> d, ok |-> FALSE]
    ELSE
    LET vic == row.vic.val
        name == row.name
        m1 == [d[vic] EXCEPT !.aspect = row.aspect]
        name_x == IF name.paren THEN name.x ELSE name.h
        m2 == IF name_x # name.h THEN Halve(m1, name.h, name.v) ELSE m1
        all(m) == [u \in DOMAIN d |-> IF d[u] = d[vic] THEN m ELSE d[u]]
    IN  IF name.letter # (IF m1.doubling[2] < 0 THEN "i" ELSE "p")
        THEN [modes |-> all(m1), ok |-> FALSE]
        ELSE IF <<name_x, name.v>> # m1.size
        THEN [modes |-> all(m1), ok |-> FALSE]
        ELSE IF name_x # name.h /\ name_x # name.h * 2
        THEN [modes |-> all(m1), ok |-> FALSE]
        ELSE [modes |-> all(m2), ok |-> PixCheck(m2, row.pix)]
T3Line(d, row) ==
    IF row.vic.kind # "int" THEN [modes |-> d, ok |-> FALSE]
    ELSE IF row.vic.val \notin DOMAIN d THEN [modes |-> d, ok |-> FALSE]
    ELSE
    LET vic == row.vic.val
        name == row.name
        m1 == [d[vic] EXCEPT !.aspect = row.aspect]
        name_x == IF name.paren THEN name.x ELSE name.h
        m2 == IF name_x # name.h THEN Halve(m1, name.h, name.v) ELSE m1
    IN  IF name.letter # (IF m1.doubling[2] < 0 THEN "i" ELSE "p")
        THEN [modes |-> Put(d, vic, m1), ok |-> FALSE]
        ELSE IF <<name_x, name.v>> # m1.size
        THEN [modes |-> Put(d, vic, m1), ok |-> FALSE]
        ELSE IF name_x # name.h /\ name_x # name.h * 2
        THEN [modes |-> Put(d, vic, m1), ok |-> FALSE]
        ELSE [modes |-> Put(d, vic, m2), ok |-> PixCheck(m2, row.pix)]

\* history: a Table-3 line completed; it halved the record when the name
\* has a parenthesized width other than the plain one
AddHalved(h, row) ==
    LET h1 == AddRow(h, row.vic.val, "t3", row)
        c  == IF row.name.paren /\ row.name.x # row.name.h THEN 1 ELSE 0
    IN  [h1 EXCEPT ![row.vic.val].halved = @ + c]

\* the loop body for one line of Table 3
Table3Step(row) ==
    /\ cur' = [table |-> 3, row |-> row]
    /\ IF Skipped(row)
       THEN /\ pc' = "table3"
            /\ UNCHANGED <<cta_vic_mode, applied>>
       ELSE LET r == T3Line(cta_vic_mode, row)
            IN  /\ cta_vic_mode' = r.modes
                /\ applied' = IF r.ok
                              THEN AddHalved(applied, row)
                              ELSE applied
                /\ pc' = IF r.ok THEN "table3" ELSE "aborted"
    /\ n' = n + 1
    /\ UNCHANGED <<vesa_dmt_modes, opened, output, pre3, vesa_src>>

Table3Row ==
    /\ pc = "table3"
    /\ n < MaxRows3
    /\ \E row \in Rows3 : Table3Step(row)

\* the same over a table of few lines
Table3RowFew ==
    /\ pc = "table3"
    /\ n < MaxRows3
    /\ \E row \in Rows3Few : Table3Step(row)

Table3End ==
    /\ pc = "table3"
    /\ pc' = "vesa"
    /\ n' = 0
    /\ cur' = [cur EXCEPT !.row = <<>>]
    /\ UNCHANGED <<cta_vic_mode, vesa_dmt_modes, opened, output,
                   applied, pre3, vesa_src>>

(***************************************************************************)
(* VESA DMT pass                                                           *)
(***************************************************************************)

\* the dict v of one block; times in nsec (Hor) and usec (Ver)
Block(hp, vp, vf, clk, scan, hpol, vpol, htt, hat, hss, hst, vtt, vat, vss, vst) ==
    [empty |-> FALSE, hor_pixels |-> hp, ver_pixels |-> vp,
     ver_frequency |-> vf, pixel_clock |-> clk, scan_type |-> scan,
     hor_sync_polarity |-> hpol, ver_sync_polarity |-> vpol,
     hor_total_time |-> htt, hor_addr_time |-> hat,
     hor_sync_start |-> hss, hor_sync_time |-> hst,
     ver_total_time |-> vtt, ver_addr_time |-> vat,
     ver_sync_start |-> vss, ver_sync_time |-> vst]

\* Timing Name = 640 x 480 @ 60Hz
V_640_480_60 ==
    Block(640, 480, 59940, 251750, "NONINTERLACED", "NEGATIVE", "NEGATIVE",
          31778, 25422, 26058, 3813, 16683, 15253, 15571, 64)
\* Timing Name = 1024 x 768 @ 43Hz (Interlaced)
V_1024_768_43i ==
    Block(1024, 768, 86957, 449000, "INTERLACED", "POSITIVE", "POSITIVE",
          28151, 22806, 22984, 3920, 23000, 21620, 21620, 113)
\* the 640 x 480 @ 60Hz block with a Scan Type that is not in the lookup
V_bad_scan ==
    Block(640, 480, 59940, 251750, "PROGRESSIVE", "NEGATIVE", "NEGATIVE",
          31778, 25422, 26058, 3813, 16683, 15253, 15571, 64)
\* the text before the first header marker: no Key = Value line
V_empty ==
    [empty |-> TRUE, hor_pixels |-> 0, ver_pixels |-> 0,
     ver_frequency |-> 0, pixel_clock |-> 0, scan_type |-> "",
     hor_sync_polarity |-> "", ver_sync_polarity |-> "",
     hor_total_time |-> 0, hor_addr_time |-> 0,
     hor_sync_start |-> 0, hor_sync_time |-> 0,
     ver_total_time |-> 0, ver_addr_time |-> 0,
     ver_sync_start |-> 0, ver_sync_time |-> 0]

Blocks == {V_640_480_60, V_1024_768_43i, V_bad_scan, V_empty}

\* the 640 x 480 @ 60Hz block with another Hor Addr Time or Ver Addr Time:
\* 20.000 and 30.000 usec for the 25.422 usec of 640 pixels, 10.000 and
\* 17.000 msec for the 15.253 msec of 480 lines
V_hor_short ==
    Block(640, 480, 59940, 251750, "NONINTERLACED", "NEGATIVE", "NEGATIVE",
          31778, 20000, 26058, 3813, 16683, 15253, 15571, 64)
V_hor_long ==
    Block(640, 480, 59940, 251750, "NONINTERLACED", "NEGATIVE", "NEGATIVE",
          31778, 30000, 26058, 3813, 16683, 15253, 15571, 64)
V_ver_short ==
    Block(640, 480, 59940, 251750, "NONINTERLACED", "NEGATIVE", "NEGATIVE",
          31778, 25422, 26058, 3813, 16683, 10000, 15571, 64)
V_ver_long ==
    Block(640, 480, 59940, 251750, "NONINTERLACED", "NEGATIVE", "NEGATIVE",
          31778, 25422, 26058, 3813, 16683, 17000, 15571, 64)

AddrBlocks == {V_hor_short, V_hor_long, V_ver_short, V_ver_long}

\* {"NEGATIVE": -1, "POSITIVE": +1}[token]
VesaPolarity(tok) == IF tok = "POSITIVE" THEN 1 ELSE -1

\* {"NONINTERLACED": 0, "INTERLACED": -1}[v["Scan Type"]]
VesaScan(tok) == IF tok = "INTERLACED" THEN -1 ELSE 0

\* round(float(usec field) / pix_usec), pix_usec = 1e3 / pixel_khz
Pixels(nsec, khz) == RoundDiv(nsec * khz, 1000000)

\* round(float(msec field) / line_msec), line_msec = Hor Total Time * 1e-3
LinesAlt(usec, htt) == (usec * 1000) \div htt
Lines(usec, htt) == RoundDiv(usec * 1000, htt)

\* assert abs(float(v["Hor Addr Time"]) - mode.size[0] * pix_usec < 1)
\* abs() of the comparison's truth value: it holds iff the comparison does
HorAddrCheck(b, m) ==
    \/ b.hor_addr_time < 1000
    \/ FracLess(b.hor_addr_time - 1000, 1000, m.size[1] * 1000, m.pixel_khz)

\* assert abs(float(v["Ver Addr Time"]) - mode.size[1] * line_msec < 1)
VerAddrCheck(b, m) ==
    b.ver_addr_time * 1000 - m.size[2] * b.hor_total_time < 1000000

\* the DisplayMode built from a block; Scan Type goes to sync_doubling
VesaMode(b) ==
    LET khz == KhzOfMhz(b.pixel_clock)
        htt == b.hor_total_time
        ss  == <<Pixels(b.hor_sync_start, khz), Lines(b.ver_sync_start, htt)>>
    IN  [size |-> <<b.hor_pixels, b.ver_pixels>>,
         scan_size |-> <<Pixels(htt, khz), Lines(b.ver_total_time, htt)>>,
         sync_start |-> ss,
         sync_end |-> <<ss[1] + Pixels(b.hor_sync_time, khz),
                        ss[2] + Lines(b.ver_sync_time, htt)>>,
         sync_polarity |-> <<VesaPolarity(b.hor_sync_polarity),
                             VesaPolarity(b.ver_sync_polarity)>>,
         doubling |-> DisplayMode.doubling,
         aspect |-> DisplayMode.aspect,
         pixel_khz |-> khz,
         nominal_hz |-> RoundDiv(b.ver_frequency, 1000),
         sync_doubling |-> <<0, VesaScan(b.scan_type)>>]

\* the lookups and asserts of the loop body for a block that is not empty
VesaOk(b) ==
    /\ KhzOfMhz(b.pixel_clock) # 0
    /\ b.hor_total_time # 0
    /\ b.hor_sync_polarity \in {"NEGATIVE", "POSITIVE"}
    /\ b.ver_sync_polarity \in {"NEGATIVE", "POSITIVE"}
    /\ b.scan_type \in {"NONINTERLACED", "INTERLACED"}
    /\ HorAddrCheck(b, VesaMode(b))
    /\ VerAddrCheck(b, VesaMode(b))

\* the loop body for block b
VesaStepOnce(b) ==
    /\ cur' = [table |-> 4, row |-> b]
    /\ IF b.empty \/ (\E i \in 1..Len(vesa_src) : vesa_src[i] = b)
       THEN /\ pc' = "vesa"
            /\ UNCHANGED <<vesa_dmt_modes, vesa_src>>
       ELSE IF VesaOk(b)
       THEN /\ pc' = "vesa"
            /\ vesa_dmt_modes' = Append(vesa_dmt_modes, VesaMode(b))
            /\ vesa_src' = Append(vesa_src, b)
       ELSE /\ pc' = "aborted"
            /\ UNCHANGED <<vesa_dmt_modes, vesa_src>>
    /\ n' = n + 1
    /\ UNCHANGED <<cta_vic_mode, opened, output, applied, pre3>>
VesaStep(b) ==
    /\ cur' = [table |-> 4, row |-> b]
    /\ IF b.empty
       THEN /\ pc' = "vesa"
            /\ UNCHANGED <<vesa_dmt_modes, vesa_src>>
       ELSE IF VesaOk(b)
       THEN /\ pc' = "vesa"
            /\ vesa_dmt_modes' = Append(vesa_dmt_modes, VesaMode(b))
            /\ vesa_src' = Append(vesa_src, b)
       ELSE /\ pc' = "aborted"
            /\ UNCHANGED <<vesa_dmt_modes, vesa_src>>
    /\ n' = n + 1
    /\ UNCHANGED <<cta_vic_mode, opened, output, applied, pre3>>

\* the table holds each timing once: a block that gave a record is not
\* read a second time
VesaBlock ==
    /\ pc = "vesa"
    /\ n < MaxBlocks
    /\ \E b \in Blocks :
         /\ \A i \in 1..Len(vesa_src) : vesa_src[i] # b
         /\ VesaStep(b)

\* the same with the blocks of AddrBlocks in the table as well
VesaBlockAddr ==
    /\ pc = "vesa"
    /\ n < MaxBlocks
    /\ \E b \in Blocks \cup AddrBlocks : VesaStep(b)

VesaEnd ==
    /\ pc = "vesa"
    /\ pc' = "open"
    /\ n' = 0
    /\ cur' = [cur EXCEPT !.row = <<>>]
    /\ UNCHANGED <<cta_vic_mode, vesa_dmt_modes, opened, output,
                   applied, pre3, vesa_src>>

(***************************************************************************)
(* Emitter                                                                 *)
(***************************************************************************)

\* sorted(keys)
RECURSIVE Sorted(_)
Sorted(S) ==
    IF S = {} THEN <<>>
    ELSE LET lo == CHOOSE x \in S : \A y \in S : x <= y
         IN  <<lo>> \o Sorted(S \ {lo})

\* the literal printed for one mode: the nine fields the f-string reads
Literal(m) ==
    [size |-> m.size, scan_size |-> m.scan_size,
     sync_start |-> m.sync_start, sync_end |-> m.sync_end,
     sync_polarity |-> m.sync_polarity, doubling |-> m.doubling,
     aspect |-> m.aspect, pixel_khz |-> m.pixel_khz,
     nominal_hz |-> m.nominal_hz]

\* parse_args() and open(args.output, "w") / sys.stdout
OpenOutput ==
    /\ pc = "open"
    /\ opened' = TRUE
    /\ pc' = "emit_cta"
    /\ UNCHANGED <<n, cur, cta_vic_mode, vesa_dmt_modes, output,
                   applied, pre3, vesa_src>>

\* first iteration of the table loop
EmitCtaReversed ==
    /\ pc = "emit_cta"
    /\ LET keys == Sorted(DOMAIN cta_vic_mode)
       IN  output' = Append(output,
               [table |-> "cta_861_modes",
                modes |-> [i \in 1..Len(keys) |->
                             Literal(cta_vic_mode[keys[Len(keys) + 1 - i]])]])
    /\ pc' = "emit_vesa"
    /\ UNCHANGED <<n, cur, cta_vic_mode, vesa_dmt_modes, opened,
                   applied, pre3, vesa_src>>
EmitCta ==
    /\ pc = "emit_cta"
    /\ LET keys == Sorted(DOMAIN cta_vic_mode)
       IN  output' = Append(output,
               [table |-> "cta_861_modes",
                modes |-> [i \in 1..Len(keys) |->
                             Literal(cta_vic_mode[keys[i]])]])
    /\ pc' = "emit_vesa"
    /\ UNCHANGED <<n, cur, cta_vic_mode, vesa_dmt_modes, opened,
                   applied, pre3, vesa_src>>

\* second iteration of the table loop
EmitVesaAnyOrder ==
    /\ pc = "emit_vesa"
    /\ \E first \in 1..Len(vesa_dmt_modes) :
         output' = Append(output,
             [table |-> "vesa_dmt_modes",
              modes |-> [i \in 1..Len(vesa_dmt_modes) |->
                           Literal(vesa_dmt_modes[
                             ((first + i - 2) % Len(vesa_dmt_modes)) + 1])]])
    /\ pc' = "done"
    /\ UNCHANGED <<n, cur, cta_vic_mode, vesa_dmt_modes, opened,
                   applied, pre3, vesa_src>>
EmitVesa ==
    /\ pc = "emit_vesa"
    /\ output' = Append(output,
           [table |-> "vesa_dmt_modes",
            modes |-> [i \in 1..Len(vesa_dmt_modes) |->
                         Literal(vesa_dmt_modes[i])]])
    /\ pc' = "done"
    /\ UNCHANGED <<n, cur, cta_vic_mode, vesa_dmt_modes, opened,
                   applied, pre3, vesa_src>>

(***************************************************************************)
(* Specification                                                           *)
(***************************************************************************)

InitOpened ==
    /\ pc = "table1"
    /\ n = 0
    /\ cur = [table |-> 0, row |-> <<>>]
    /\ cta_vic_mode = <<>>
    /\ vesa_dmt_modes = <<>>
    /\ opened = TRUE
    /\ output = <<>>
    /\ applied = <<>>
    /\ pre3 = <<>>
    /\ vesa_src = <<>>
Init ==
    /\ pc = "table1"
    /\ n = 0
    /\ cur = [table |-> 0, row |-> <<>>]
    /\ cta_vic_mode = <<>>
    /\ vesa_dmt_modes = <<>>
    /\ opened = FALSE
    /\ output = <<>>
    /\ applied = <<>>
    /\ pre3 = <<>>
    /\ vesa_src = <<>>

Next ==
    \/ Table1Row
    \/ Table1End
    \/ Table2Row
    \/ Table2End
    \/ Table3Row
    \/ Table3End
    \/ VesaBlock
    \/ VesaEnd
    \/ OpenOutput
    \/ EmitCta
    \/ EmitVesa

Spec == Init /\ [][Next]_vars

\* The run with a Table 1 of few lines, Tables 2 and 3 empty, and a VESA
\* table that may hold the blocks of AddrBlocks and any block more than once.
NextVesa ==
    \/ Table1RowFew
    \/ Table1End
    \/ Table2End
    \/ Table3End
    \/ VesaBlockAddr
    \/ VesaEnd
    \/ OpenOutput
    \/ EmitCta
    \/ EmitVesa

SpecVesa == Init /\ [][NextVesa]_vars

\* The run on CTA-861 tables of few lines.
NextFew ==
    \/ Table1RowFew
    \/ Table1End
    \/ Table2RowFew
    \/ Table2End
    \/ Table3RowFew
    \/ Table3End
    \/ VesaBlock
    \/ VesaEnd
    \/ OpenOutput
    \/ EmitCta
    \/ EmitVesa

SpecFew == Init /\ [][NextFew]_vars

(***************************************************************************)
(* Properties                                                              *)
(***************************************************************************)

\* the first array has been written
Written == Len(output) >= 1

\* the literal written for VIC v: the arrays carry no VIC, the entry of v is
\* found by its position in ascending VIC order
Rank(v) == Cardinality({u \in DOMAIN cta_vic_mode : u <= v})
Emitted(v) == output[1].modes[Rank(v)]

\* the row read last made the run fail
Failed(t, row) == pc = "aborted" /\ cur.table = t /\ cur.row = row

\* the last rows that completed for v in Tables 1 and 2 are r1 and r2
Rows12(v, r1, r2) ==
    /\ v \in DOMAIN applied
    /\ applied[v].row.t1 = r1
    /\ applied[v].row.t2 = r2

\* exactly one Table-3 row completed for v, and it is r3
Row3(v, r3) ==
    /\ v \in DOMAIN applied
    /\ applied[v].cnt.t3 = 1
    /\ applied[v].row.t3 = r3

\* C1: the Table-1 row of VICs 4,69, the Table-2 row of VICs 4,69 and the
\* Table-3 row of VIC 4 pass every check, and the record written for VIC 4
\* has size (1280,720), scan_size (1650,750), pixel_khz 74250, nominal_hz 60
\* and doubling (0,0).
C1_Vic4 ==
    /\ ~Failed(1, T1_4_69)
    /\ ~(Failed(2, T2_4_69) /\ 4 \in DOMAIN applied /\ 69 \in DOMAIN applied
           /\ applied[4].row.t1 = T1_4_69 /\ applied[69].row.t1 = T1_4_69)
    /\ ~(Failed(3, T3_4) /\ Rows12(4, T1_4_69, T2_4_69)
           /\ applied[4].cnt.t3 = 0)
    /\ (Written /\ Rows12(4, T1_4_69, T2_4_69) /\ Row3(4, T3_4))
         => /\ Emitted(4).size = <<1280, 720>>
            /\ Emitted(4).scan_size = <<1650, 750>>
            /\ Emitted(4).pixel_khz = 74250
            /\ Emitted(4).nominal_hz = 60
            /\ Emitted(4).doubling = <<0, 0>>

C1_Witness ==
    /\ pc = "done"
    /\ Rows12(4, T1_4_69, T2_4_69)
    /\ Row3(4, T3_4)
    /\ Emitted(4).pixel_khz = 74250

\* C2: for VIC 6 and VIC 7, with the Table-1 row 6,7 and the Table-3 name
\* 720(1440)x480i, the record written has size (720,480), doubling (1,-1)
\* and pixel_khz 13500, half of the 27000 of Table 1.
C2_Vic6And7 ==
    \A v \in {6, 7} :
      (/\ Written
       /\ v \in DOMAIN applied
       /\ applied[v].row.t1 = T1_6_7
       /\ Row3(v, IF v = 6 THEN T3_6 ELSE T3_7))
        => /\ Emitted(v).size = <<720, 480>>
           /\ Emitted(v).doubling = <<1, -1>>
           /\ Emitted(v).pixel_khz = 13500
           /\ 2 * Emitted(v).pixel_khz = KhzOfMhz(T1_6_7.clk)

C2_Witness ==
    /\ pc = "done"
    /\ 6 \in DOMAIN applied /\ 7 \in DOMAIN applied
    /\ applied[6].row.t1 = T1_6_7 /\ Row3(6, T3_6)
    /\ applied[7].row.t1 = T1_6_7 /\ Row3(7, T3_7)
    /\ Emitted(7).doubling = <<1, -1>>

\* C3: when a check or lookup of one of the four passes fails, the output
\* destination has not been opened and nothing has been written; the output
\* is opened and written only after all four passes have completed.
C3_NoPartialOutput ==
    /\ pc = "aborted" => ~opened /\ output = <<>>
    /\ (opened \/ output # <<>>) => pc \in {"emit_cta", "emit_vesa", "done"}
    /\ output # <<>> => opened

C3_Witness ==
    /\ pc = "aborted"
    /\ cur.table = 4
    /\ Len(vesa_dmt_modes) >= 1
    /\ DOMAIN cta_vic_mode # {}
    /\ ~opened

\* C4: rows are applied in the order Table 1, Table 2, Table 3 (then the
\* VESA blocks): once a row of a later table has been read no row of an
\* earlier table is read, and once an array has been written no row is read
\* and no record changes.
C4_PassOrder ==
    [][/\ cur'.table >= cur.table
       /\ (output # <<>>) =>
            (cur' = cur /\ n' = n /\ cta_vic_mode' = cta_vic_mode)]_vars

C4_Witness ==
    /\ pc = "done"
    /\ cur.table = 3
    /\ \E v \in DOMAIN applied :
         applied[v].cnt.t1 > 0 /\ applied[v].cnt.t2 > 0 /\ applied[v].cnt.t3 > 0

\* a row is read from Table t in this step
Reads(t) == n' = n + 1 /\ cur'.table = t

\* a Table-2 row naming a VIC that has no record
Missing2(row) == \E i \in 1..Len(row.vics) : row.vics[i] \notin DOMAIN cta_vic_mode

\* a Table-3 row that is not skipped and names a VIC that has no record
Missing3(row) ==
    /\ ~Skipped(row)
    /\ row.vic.kind = "int"
    /\ row.vic.val \notin DOMAIN cta_vic_mode

\* C5 as claimed: a Table-2 row or non-skipped Table-3 row naming a VIC
\* without a record aborts, creates no record and modifies no record.
C5_Original ==
    [][(\/ Reads(2) /\ Missing2(cur'.row)
        \/ Reads(3) /\ Missing3(cur'.row))
         => /\ pc' = "aborted"
            /\ cta_vic_mode' = cta_vic_mode]_vars

\* C5 as amended: such a row aborts and creates no record; the only records
\* it can have modified are those of VICs listed before the first missing
\* VIC of the same Table-2 line (a Table-3 line names one VIC and modifies
\* nothing).
C5_MissingVic ==
    [][(\/ Reads(2) /\ Missing2(cur'.row)
        \/ Reads(3) /\ Missing3(cur'.row))
         => /\ pc' = "aborted"
            /\ DOMAIN cta_vic_mode' = DOMAIN cta_vic_mode
            /\ \A v \in DOMAIN cta_vic_mode :
                 cta_vic_mode'[v] # cta_vic_mode[v]
                   => /\ cur'.table = 2
                      /\ \E i \in 1..Len(cur'.row.vics) :
                           /\ cur'.row.vics[i] = v
                           /\ \A j \in 1..i :
                                cur'.row.vics[j] \in DOMAIN cta_vic_mode]_vars

C5_Witness ==
    /\ Failed(2, T2_6_7)
    /\ DOMAIN cta_vic_mode = {6}
    /\ cta_vic_mode[6].sync_end = <<1602, 494>>

\* C6 as claimed: every record written has had a Table-2 row and a Table-3
\* row applied to it.
C6_Original ==
    Written => \A v \in DOMAIN cta_vic_mode :
                 /\ v \in DOMAIN applied
                 /\ applied[v].cnt.t2 > 0
                 /\ applied[v].cnt.t3 > 0

\* C7 as claimed: the VESA record written for an INTERLACED block has
\* doubling (0,-1), the one for a NONINTERLACED block has doubling (0,0).
C7_Original ==
    Len(output) = 2 =>
      \A i \in 1..Len(vesa_src) :
        /\ vesa_src[i].scan_type = "INTERLACED"
             => output[2].modes[i].doubling = <<0, -1>>
        /\ vesa_src[i].scan_type = "NONINTERLACED"
             => output[2].modes[i].doubling = <<0, 0>>

\* number of pixel-doubling corrections applied to v
Corrections(v) == applied[v].halved

\* 2 for an interlaced record, 1 for a progressive one
LineScale(m) == IF m.doubling[2] = -1 THEN 2 ELSE 1

\* scan_size.h == sync_end.h + back porch of row r
PorchH(m, r) == m.scan_size[1] = m.sync_end[1] + r.hbp

\* |scan_size.v - (sync_end.v + back porch of row r in lines)| <= 2
PorchV(m, r) ==
    Abs(m.scan_size[2] - (m.sync_end[2] + r.vbp * LineScale(m))) <= 2

\* C8 as claimed: every record written satisfies both porch identities with
\* the back porches of the Table-2 row last applied to its VIC.
C8_Original ==
    Written => \A v \in DOMAIN cta_vic_mode :
                 applied[v].cnt.t2 > 0
                   => /\ PorchH(Emitted(v), applied[v].row.t2)
                      /\ PorchV(Emitted(v), applied[v].row.t2)

\* C8 as amended: the vertical bound holds for every record written; the
\* horizontal identity holds for the records that are not pixel-doubled,
\* and for a pixel-doubled record it holds for the values the Table-2 pass
\* left, the written scan_size.h - sync_end.h of a once-corrected record
\* being half the back porch, rounded down or up.
C8_Porches ==
    Written => \A v \in DOMAIN cta_vic_mode :
                 applied[v].cnt.t2 > 0
                   => LET r == applied[v].row.t2
                          m == Emitted(v)
                      IN  /\ PorchV(m, r)
                          /\ m.doubling[1] = 0 => PorchH(m, r)
                          /\ m.doubling[1] = 1 => PorchH(pre3[v], r)
                          /\ Corrections(v) = 1
                               => m.scan_size[1] - m.sync_end[1]
                                    \in {r.hbp \div 2, (r.hbp + 1) \div 2}

C8_Witness ==
    /\ pc = "done"
    /\ 8 \in DOMAIN applied
    /\ applied[8].cnt.t1 = 2 /\ applied[8].row.t1 = T1_8_9b
    /\ applied[8].cnt.t2 = 2 /\ applied[8].row.t2 = T2_8_9b
    /\ Row3(8, T3_8)
    /\ Emitted(8).sync_end = <<801, 248>>

\* |khz / h - fh| < 1e-3, fh in 1/1000 kHz
NearH(khz, h, fh) == FracNear(khz, h, fh, 1000, 1000)

\* |khz * 1000 / (h * v) * num / den - fv| < 1e-2, fv in 1/10000 Hz
NearV(khz, h, v, num, fv) == FracNear(num * khz * 1000, h * v, fv, 10000, 100)

\* |khz * 1000 / (h * v) - fv / den| < 1e-2
NearFrame(khz, h, v, fv, den) == FracNear(khz * 1000, h * v, fv, 10000 * den, 100)

\* the bounds of the claim: the derived vertical frequency divided by the
\* interlace factor (1/2 interlaced, 1 progressive) against the published one
FreqAsClaimed(m, r) ==
    /\ NearH(m.pixel_khz, m.scan_size[1], r.fh)
    /\ NearV(m.pixel_khz, m.scan_size[1], m.scan_size[2], LineScale(m), r.fv)

\* the same with the factor on the published side: the derived frame rate
\* against the published frequency times the interlace factor
FreqPerFrame(m, r) ==
    /\ NearH(m.pixel_khz, m.scan_size[1], r.fh)
    /\ NearFrame(m.pixel_khz, m.scan_size[1], m.scan_size[2], r.fv,
                 LineScale(m))

RECURSIVE Pow2(_)
Pow2(k) == IF k = 0 THEN 1 ELSE 2 * Pow2(k - 1)

\* C9 as claimed: every record written satisfies both frequency bounds
\* against the last Table-1 row naming its VIC.
C9_Original ==
    Written => \A v \in DOMAIN cta_vic_mode :
                 FreqAsClaimed(Emitted(v), applied[v].row.t1)

\* C9 as amended: the horizontal bound is as claimed and the vertical bound
\* is |pixel_khz*1000/(scan_size.h*scan_size.v) - published_v_freq *
\* interlace_factor| < 1e-2.  Both hold for the written values of a record
\* that is not pixel-doubled; for a pixel-doubled record they hold for the
\* values the Table-1 pass left, and for the written values when every
\* correction halved an even pixel_khz and an even scan_size.h.
C9_Frequencies ==
    Written => \A v \in DOMAIN cta_vic_mode :
                 LET r == applied[v].row.t1
                     m == Emitted(v)
                     p == pre3[v]
                     c == Pow2(Corrections(v))
                 IN  /\ m.doubling[1] = 0 => FreqPerFrame(m, r)
                     /\ m.doubling[1] = 1 => FreqPerFrame(p, r)
                     /\ (/\ m.doubling[1] = 1
                         /\ p.pixel_khz % c = 0
                         /\ p.scan_size[1] % c = 0) => FreqPerFrame(m, r)

C9_Witness ==
    /\ pc = "done"
    /\ 6 \in DOMAIN applied
    /\ applied[6].row.t1 = T1_6_7
    /\ Row3(6, T3_6)
    /\ Emitted(6).doubling = <<1, -1>>
    /\ Emitted(6).pixel_khz = 13500
    /\ Emitted(6).scan_size = <<858, 525>>

\* the last Table-3 row applied to v has a parenthesized width that differs
\* from the plain width
ParenName(v) ==
    /\ applied[v].cnt.t3 > 0
    /\ applied[v].row.t3.name.paren
    /\ applied[v].row.t3.name.x # applied[v].row.t3.name.h

\* the five values the correction touches
Five(m) == <<m.size[1], m.scan_size[1], m.sync_start[1], m.sync_end[1],
             m.pixel_khz>>

\* C10 as claimed: doubling.h = 1 exactly for the records with such a name,
\* whose five values are exactly half of those the Table-1/2 passes left;
\* the other records keep these values and have doubling.h = 0.
C10_Original ==
    Written => \A v \in DOMAIN cta_vic_mode :
                 LET m == Emitted(v)
                     p == pre3[v]
                 IN  /\ m.doubling[1] = 1 <=> ParenName(v)
                     /\ ParenName(v)
                          => \A i \in 1..5 : 2 * Five(m)[i] = Five(p)[i]
                     /\ ~ParenName(v)
                          => Five(m) = Five(p) /\ m.doubling[1] = 0

\* C10 as amended: for a record to which at most one Table-3 row was
\* applied, doubling.h = 1 exactly when the name has such a width; then
\* size.h is exactly half, and scan_size.h, sync_start.h, sync_end.h and
\* pixel_khz are half rounded down, of the values the Table-1/2 passes left;
\* otherwise the five values are unmodified and doubling.h = 0.
C10_Halving ==
    Written => \A v \in DOMAIN cta_vic_mode :
                 applied[v].cnt.t3 <= 1
                   => LET m == Emitted(v)
                          p == pre3[v]
                      IN  /\ m.doubling[1] = 1 <=> ParenName(v)
                          /\ ParenName(v)
                               => /\ 2 * m.size[1] = p.size[1]
                                  /\ \A i \in 2..5 :
                                       Five(m)[i] = Five(p)[i] \div 2
                          /\ ~ParenName(v)
                               => Five(m) = Five(p) /\ m.doubling[1] = 0

C10_Witness ==
    /\ pc = "done"
    /\ 6 \in DOMAIN applied
    /\ applied[6].row.t1 = T1_6_odd
    /\ Row3(6, T3_6)
    /\ pre3[6].pixel_khz = 27001
    /\ Emitted(6).pixel_khz = 13500
    /\ Emitted(6).doubling[1] = 1

\* x is a/b rounded to the nearest integer (a >= 0, b > 0)
Nearest(x, a, b) == 2 * Abs(x * b - a) <= b

\* C11: the block '640 x 480 @ 60Hz' passes every check of the VESA pass and
\* the record written for it has pixel_khz 25175 and scan_size (800,525);
\* for every VESA record written, scan_size.h is Hor Total Time divided by
\* the pixel period 1000/pixel_khz usec and scan_size.v is Ver Total Time
\* divided by the line period, each rounded to the nearest integer.
C11_Vesa640 ==
    /\ ~Failed(4, V_640_480_60)
    /\ Len(output) = 2 =>
         \A i \in 1..Len(vesa_src) :
           LET b == vesa_src[i]
               m == output[2].modes[i]
           IN  /\ b = V_640_480_60
                    => m.pixel_khz = 25175 /\ m.scan_size = <<800, 525>>
               /\ Nearest(m.scan_size[1],
                          b.hor_total_time * m.pixel_khz, 1000000)
               /\ Nearest(m.scan_size[2],
                          b.ver_total_time * 1000, b.hor_total_time)

C11_Witness ==
    /\ pc = "done"
    /\ Len(vesa_src) = 2
    /\ vesa_src[2] = V_640_480_60
    /\ output[2].modes[2].scan_size = <<800, 525>>
    /\ output[2].modes[2].pixel_khz = 25175

\* the pixel-aspect field is a range or a list: joined with single spaces it
\* holds a space, a hyphen or a comma
RangeOrList(pix) ==
    \/ Len(pix) > 1
    \/ Len(pix) = 1 /\ (pix[1].hyphen \/ pix[1].comma)

\* the VIC of a Table-3 row has a record and the name of the row agrees
\* with it: every step of the loop body before the pixel-aspect field passes
NameOk(d, row) ==
    /\ row.vic.kind = "int"
    /\ row.vic.val \in DOMAIN d
    /\ LET m == d[row.vic.val]
           name_x == IF row.name.paren THEN row.name.x ELSE row.name.h
       IN  /\ row.name.letter = (IF m.doubling[2] < 0 THEN "i" ELSE "p")
           /\ <<name_x, row.name.v>> = m.size
           /\ name_x = row.name.h \/ name_x = 2 * row.name.h

\* C12: a Table-3 row whose pixel-aspect field is a range or a list never
\* fails at the pixel-aspect check, whatever ratios it names: when the rest
\* of the row is accepted the row is accepted; a row that fails at the
\* check has a field of one single token without hyphen or comma.
C12_AspectCheckSkipped ==
    [][(Reads(3) /\ ~Skipped(cur'.row) /\ NameOk(cta_vic_mode, cur'.row))
         => /\ RangeOrList(cur'.row.pix) => pc' = "table3"
            /\ pc' = "aborted"
                 => Len(cur'.row.pix) <= 1 /\ ~RangeOrList(cur'.row.pix)]_vars

C12_Witness ==
    /\ pc = "table3"
    /\ cur = [table |-> 3, row |-> T3_4_range]
    /\ 4 \in DOMAIN applied
    /\ applied[4].row.t3 = T3_4_range
    /\ cta_vic_mode[4].aspect = <<16, 9>>

\* the VICs named by the Table-1 rows read
Named1 == {v \in DOMAIN applied : applied[v].cnt.t1 > 0}

\* C13: a run that succeeds has written the array cta_861_modes and then the
\* array vesa_dmt_modes; the first holds one entry for every VIC named in
\* Table 1, the entry of a VIC standing at the rank of the VIC in ascending
\* order, and the second holds the record of each VESA block in the order
\* the blocks were read.
C13_OutputOrder ==
    /\ pc = "emit_vesa" => Len(output) = 1
    /\ pc = "done" =>
         /\ Len(output) = 2
         /\ output[1].table = "cta_861_modes"
         /\ output[2].table = "vesa_dmt_modes"
         /\ DOMAIN cta_vic_mode = Named1
         /\ Len(output[1].modes) = Cardinality(Named1)
         /\ \A v \in Named1 : Emitted(v) = Literal(cta_vic_mode[v])
         /\ \A u, v \in Named1 : u < v => Rank(u) < Rank(v)
         /\ Len(output[2].modes) = Len(vesa_src)
         /\ \A i \in 1..Len(vesa_src) :
              output[2].modes[i] = Literal(VesaMode(vesa_src[i]))

\* the rows 4,69 and 6,7 were read: whichever came first, the dict holds
\* its keys in an order that is not ascending (69 before 6, or 7 before 4)
C13_Witness ==
    /\ pc = "done"
    /\ Named1 = {4, 6, 7, 69}
    /\ Emitted(4) # Emitted(6)
    /\ Emitted(7) # Emitted(69)
    /\ vesa_src = <<V_1024_768_43i, V_640_480_60>>
    /\ output[2].modes[1].size = <<1024, 768>>

\* every VIC of a Table-2 row has a record and both polarity tokens are in
\* the lookup: the row can fail at its two asserts only
Known2(row) ==
    /\ \A i \in 1..Len(row.vics) : row.vics[i] \in DOMAIN cta_vic_mode
    /\ row.hpol \in {"P", "N"}
    /\ row.vpol \in {"P", "N"}

\* scan_size.v - (sync_end.v + back porch x scale) for the sync_end that the
\* row gives the record m
VDiff(m, row) ==
    m.scan_size[2] - (m.size[2] + (row.vfp + row.vsw + row.vbp) * LineScale(m))

\* scan_size.h - (sync_end.h + back porch) likewise
HDiff(m, row) ==
    m.scan_size[1] - (m.size[1] + row.hfp + row.hsw + row.hbp)

\* the row meets the horizontal identity and has its vertical difference in
\* lo..hi, for the record of each of its VICs
Accept2(row, lo, hi) ==
    \A i \in 1..Len(row.vics) :
      LET m == cta_vic_mode[row.vics[i]]
      IN  HDiff(m, row) = 0 /\ lo <= VDiff(m, row) /\ VDiff(m, row) <= hi

\* C15 as claimed: a Table-2 row is accepted exactly when the horizontal
\* identity holds and the vertical difference lies in -2..2.
C15_Original ==
    [][(Reads(2) /\ Known2(cur'.row))
         => (pc' = "table2" <=> Accept2(cur'.row, -2, 2))]_vars

\* C15 as amended: a Table-2 row whose VICs all have records and whose
\* polarity tokens are P or N is accepted exactly when the horizontal
\* identity holds and the vertical difference lies in 0..2; a row whose
\* sync_end.v plus scaled back porch exceeds scan_size.v aborts.
C15_Table2Accepted ==
    [][(Reads(2) /\ Known2(cur'.row))
         => (pc' = "table2" <=> Accept2(cur'.row, 0, 2))]_vars

\* the row 8,9 with vertical porches of 23 lines, read for a record whose
\* Table-1 blank is 22 lines, has aborted
C15_Witness ==
    /\ Failed(2, T2_8_9b)
    /\ 8 \in DOMAIN applied
    /\ applied[8].cnt.t1 = 1
    /\ applied[8].row.t1 = T1_8_9a
    /\ applied[8].cnt.t2 = 0
    /\ cta_vic_mode[8].scan_size[2] - (cta_vic_mode[8].sync_end[2] + 15) = -1

\* Hor Addr Time differs from size.h x pixel period by 1 usec or more
HorOff(b) ==
    Abs(b.hor_addr_time * KhzOfMhz(b.pixel_clock) - b.hor_pixels * 1000000)
      >= 1000 * KhzOfMhz(b.pixel_clock)

\* Ver Addr Time differs from size.v x line period by 1 msec or more
VerOff(b) ==
    Abs(b.ver_addr_time * 1000 - b.ver_pixels * b.hor_total_time) >= 1000000

\* C16 as claimed: a VESA block whose Hor Addr Time or Ver Addr Time differs
\* from size x period by one unit or more, in either direction, aborts.
C16_Original ==
    [][(Reads(4) /\ ~cur'.row.empty /\ (HorOff(cur'.row) \/ VerOff(cur'.row)))
         => pc' = "aborted"]_vars

\* k = 2^(-doubling.v): 1 for a progressive record, 2 for an interlaced one
ScaleK(m) == Pow2(-m.doubling[2])

\* +1 for token P, -1 for token N
Sign(tok) == IF tok = "P" THEN 1 ELSE IF tok = "N" THEN -1 ELSE 0

\* C17: a Table-2 row that completes leaves, in the record of each of its
\* VICs, sync_start = (size.h + horizontal front porch, size.v + vertical
\* front porch x k), sync_end = (sync_start.h + horizontal sync width,
\* sync_start.v + vertical sync width x k) and sync_polarity = (+1 for P,
\* -1 for N) on each axis, with k = 2^(-doubling.v) of the record; a row
\* with a polarity token other than P and N aborts.
C17_Table2Sync ==
    [][Reads(2) =>
         LET row == cur'.row
         IN  /\ pc' = "table2" =>
                  \A i \in 1..Len(row.vics) :
                    LET m == cta_vic_mode'[row.vics[i]]
                        k == ScaleK(cta_vic_mode[row.vics[i]])
                    IN  /\ k = (IF m.doubling[2] = -1 THEN 2 ELSE 1)
                        /\ m.sync_start = <<m.size[1] + row.hfp,
                                            m.size[2] + row.vfp * k>>
                        /\ m.sync_end = <<m.sync_start[1] + row.hsw,
                                          m.sync_start[2] + row.vsw * k>>
                        /\ m.sync_polarity = <<Sign(row.hpol), Sign(row.vpol)>>
                        /\ m.sync_polarity[1] # 0 /\ m.sync_polarity[2] # 0
             /\ (row.hpol \notin {"P", "N"} \/ row.vpol \notin {"P", "N"})
                  => pc' = "aborted"]_vars

\* the row 6,7 (negative polarities) has completed on interlaced records
C17_Witness ==
    /\ pc = "table2"
    /\ cur = [table |-> 2, row |-> T2_6_7]
    /\ cta_vic_mode[6].doubling = <<0, -1>>
    /\ cta_vic_mode[6].sync_start = <<1478, 488>>
    /\ cta_vic_mode[6].sync_end = <<1602, 494>>
    /\ cta_vic_mode[7].sync_polarity = <<-1, -1>>

\* C18: a Table-1 row completes only if scan_size == size + (horizontal
\* blank, vertical blank x k) exactly; a Table-2 row completes only if, for
\* the record of each of its VICs, front porch + sync width + back porch
\* equals the horizontal blank of the Table-1 row behind the record
\* (scan_size.h - size.h) exactly and the scaled vertical sum differs from
\* the vertical blank of that row (scan_size.v - size.v) by at most 2 lines.
C18_BlankingAgrees ==
    [][/\ (Reads(1) /\ pc' = "table1") =>
            LET row == cur'.row
                k == IF row.scan = "Int" THEN 2 ELSE 1
            IN  /\ row.tw = row.w + row.hb
                /\ 10 * row.th = 10 * row.h + row.vb10 * k
                /\ \A i \in 1..Len(row.vics) :
                     LET m == cta_vic_mode'[row.vics[i]]
                     IN  /\ m.scan_size[1] = m.size[1] + row.hb
                         /\ 10 * m.scan_size[2] = 10 * m.size[2] + row.vb10 * k
       /\ (Reads(2) /\ pc' = "table2") =>
            LET row == cur'.row
            IN  \A i \in 1..Len(row.vics) :
                  LET v == row.vics[i]
                      m == cta_vic_mode[v]
                      r1 == applied[v].row.t1
                      k == LineScale(m)
                  IN  /\ m.scan_size[1] - m.size[1] = r1.hb
                      /\ 10 * (m.scan_size[2] - m.size[2]) = r1.vb10 * k
                      /\ row.hfp + row.hsw + row.hbp = r1.hb
                      /\ Abs(10 * k * (row.vfp + row.vsw + row.vbp)
                               - r1.vb10 * k) <= 20]_vars

\* the row 8,9 with vertical porches of 22 lines has completed on a record
\* whose Table-1 row has a vertical blank of 23 lines
C18_Witness ==
    /\ pc = "table2"
    /\ cur = [table |-> 2, row |-> T2_8_9a]
    /\ 8 \in DOMAIN applied
    /\ applied[8].row.t1 = T1_8_9b
    /\ applied[8].row.t2 = T2_8_9a
    /\ cta_vic_mode[8].scan_size = <<1716, 263>>
    /\ cta_vic_mode[8].sync_end = <<1602, 247>>

\* C19 as claimed: a Table-1 row that completes leaves pixel_khz equal to
\* the pixel clock in MHz times 1000 rounded to the nearest integer, and
\* nominal_hz equal to the vertical frequency rounded to the nearest integer.
C19_Original ==
    [][(Reads(1) /\ pc' = "table1") =>
         \A i \in 1..Len(cur'.row.vics) :
           LET m == cta_vic_mode'[cur'.row.vics[i]]
           IN  /\ Nearest(m.pixel_khz, cur'.row.clk, 10)
               /\ Nearest(m.nominal_hz, cur'.row.fv, 10000)]_vars

\* C20: a Table-1 row that completes leaves doubling (0,0) for the
\* scan-type token Prog and (0,-1) for the token Int; a row with any other
\* token aborts; no record written has doubling.v outside {0,-1}.
C20_ScanType ==
    [][/\ Reads(1) =>
            LET row == cur'.row
            IN  /\ row.scan \notin {"Prog", "Int"} => pc' = "aborted"
                /\ pc' = "table1" =>
                     \A i \in 1..Len(row.vics) :
                       cta_vic_mode'[row.vics[i]].doubling =
                         (IF row.scan = "Prog" THEN <<0, 0>> ELSE <<0, -1>>)
       /\ \A a \in 1..Len(output') :
            \A i \in 1..Len(output'[a].modes) :
              output'[a].modes[i].doubling[2] \in {0, -1}]_vars

C20_Witness ==
    /\ pc = "done"
    /\ Named1 = {4, 6, 7, 69}
    /\ applied[4].row.t1.scan = "Prog"
    /\ applied[6].row.t1.scan = "Int"
    /\ Emitted(4).doubling = <<0, 0>>
    /\ Emitted(6).doubling[2] = -1
    /\ Emitted(7).doubling = <<1, -1>>

\* C14: generation is deterministic.  The run starts in one state, and from
\* any state reached, the line or block read next (or the end of the table)
\* leaves one possible next state: no step has a second outcome that reads
\* the same input (cur) and differs in the position, the records, the lists
\* or the arrays written.  So two runs on the same tables pass through the
\* same states: both abort at the same line, or both end having written the
\* same records in the same order.
C14_Deterministic ==
    [][\A st \in {vars'} :
         ~ENABLED (NextFew /\ cur' = st[3] /\ vars' # st)]_vars

C14_Witness ==
    /\ pc = "done"
    /\ Named1 = {4, 6, 7, 69}
    /\ Len(output) = 2
    /\ Len(output[1].modes) = 4
    /\ Len(output[2].modes) = 2
    /\ output[2].modes[1] # output[2].modes[2]

\* the row names a VIC that has a record
HasRecord(row) ==
    /\ ~Skipped(row)
    /\ row.vic.kind = "int"
    /\ row.vic.val \in DOMAIN cta_vic_mode

\* the trailing letter of a name against the scan type of record m: 'p' on
\* an interlaced record, 'i' on a progressive one, or any other character
LetterWrong(m, letter) ==
    \/ letter = "p" /\ m.doubling[2] = -1
    \/ letter = "i" /\ m.doubling[2] = 0
    \/ letter \notin {"p", "i"}

\* the six values the claim names
Six(m) == <<m.size, m.scan_size, m.sync_start, m.sync_end, m.pixel_khz,
            m.doubling>>

\* C21: a non-skipped Table-3 row whose name ends in 'p' while the record is
\* interlaced, in 'i' while the record is progressive, or in any other
\* character, aborts generation, and the size, scan_size, sync_start,
\* sync_end, pixel_khz and doubling of the record are as they were before
\* the row was read (no other record changes either).
C21_LetterMismatch ==
    [][(/\ Reads(3)
        /\ HasRecord(cur'.row)
        /\ LetterWrong(cta_vic_mode[cur'.row.vic.val], cur'.row.name.letter))
         => /\ pc' = "aborted"
            /\ DOMAIN cta_vic_mode' = DOMAIN cta_vic_mode
            /\ \A v \in DOMAIN cta_vic_mode :
                 Six(cta_vic_mode'[v]) = Six(cta_vic_mode[v])]_vars

\* the row naming the interlaced, double-width VIC 6 as progressive has
\* aborted and left the Table-1 width and clock in the record
C21_Witness ==
    /\ Failed(3, T3_6_letter)
    /\ 6 \in DOMAIN cta_vic_mode
    /\ cta_vic_mode[6].doubling = <<0, -1>>
    /\ cta_vic_mode[6].size = <<1440, 480>>
    /\ cta_vic_mode[6].pixel_khz = 27000
    /\ cta_vic_mode[6].sync_end = <<1602, 494>>

\* the pixel-aspect field is one ratio h:v
SingleRatio(pix) ==
    /\ Len(pix) = 1
    /\ pix[1].kind = "ratio"
    /\ ~pix[1].hyphen /\ ~pix[1].comma

\* the name of the row carries a parenthesized width other than the plain one
Doubled(row) == row.name.paren /\ row.name.x # row.name.h

\* |h/v - (aspect.h / size.h) / (aspect.v / size.v)| < 1e-3 for the ratio
\* h:v and the aspect of the row, and the size <<w, t>>
PixNear(row, w, t) ==
    /\ row.pix[1].v # 0 /\ row.aspect[2] # 0 /\ w # 0 /\ t # 0
    /\ FracNear(row.pix[1].h, row.pix[1].v,
                row.aspect[1] * t, row.aspect[2] * w, 1000)

\* C22: a Table-3 row with a single-ratio pixel-aspect field h:v, whose
\* name agrees with the record, is accepted exactly when
\* |h/v - (aspect.h/size.h)/(aspect.v/size.v)| < 1e-3, with the aspect of the
\* same row and the size of the record after the pixel-doubling correction
\* of that row (half the Table-1 width for a doubled name); otherwise
\* generation aborts.
C22_PixelAspect ==
    [][(/\ Reads(3)
        /\ HasRecord(cur'.row)
        /\ NameOk(cta_vic_mode, cur'.row)
        /\ SingleRatio(cur'.row.pix))
         => LET row == cur'.row
                old == cta_vic_mode[row.vic.val]
                new == cta_vic_mode'[row.vic.val]
                w == IF Doubled(row) THEN old.size[1] \div 2 ELSE old.size[1]
            IN  /\ new.size = <<w, old.size[2]>>
                /\ new.aspect = row.aspect
                /\ pc' = "table3" <=> PixNear(row, w, old.size[2])
                /\ pc' = "aborted" <=> ~PixNear(row, w, old.size[2])]_vars

\* the row of VIC 6 (pixel aspect 8:9, which fits the width 720 and not the
\* width 1440 of Table 1) has completed
C22_Witness ==
    /\ pc = "table3"
    /\ cur = [table |-> 3, row |-> T3_6]
    /\ 6 \in DOMAIN cta_vic_mode
    /\ cta_vic_mode[6].size = <<720, 480>>
    /\ cta_vic_mode[6].aspect = <<4, 3>>
    /\ PixNear(T3_6, 720, 480)
    /\ ~PixNear(T3_6, 1440, 480)

\* C23: a Table-3 row whose second field is Forbidden, Reserved or No is
\* skipped: the run goes on to the next row and no record is created,
\* removed or changed, also when the first field is a range that int()
\* rejects or a VIC without a record.
C23_SkippedRows ==
    [][(Reads(3) /\ cur'.row.name.word \in {"Forbidden", "Reserved", "No"})
         => /\ pc' = "table3"
            /\ cta_vic_mode' = cta_vic_mode
            /\ vesa_dmt_modes' = vesa_dmt_modes
            /\ output' = output]_vars

\* the row '0 No ...' has been read while records exist and VIC 0 has none
C23_Witness ==
    /\ pc = "table3"
    /\ cur = [table |-> 3, row |-> T3_no]
    /\ n = 2
    /\ 0 \notin DOMAIN cta_vic_mode
    /\ 4 \in DOMAIN cta_vic_mode
    /\ cta_vic_mode[4].aspect = <<16, 9>>

\* C24: reading a block that is not empty and passes its checks appends one
\* record, the one built from that block, to the VESA list; an empty block
\* appends nothing; a block equal to one read before appends a record again;
\* no append changes a record appended earlier or a CEA-861 record.  So the
\* list holds one record per non-empty block read, in the order read.
C24_VesaAppend ==
    [][Reads(4) =>
         LET b == cur'.row
             k == Len(vesa_dmt_modes)
         IN  /\ cta_vic_mode' = cta_vic_mode
             /\ b.empty => pc' = "vesa" /\ vesa_dmt_modes' = vesa_dmt_modes
             /\ pc' = "aborted" => vesa_dmt_modes' = vesa_dmt_modes
             /\ (~b.empty /\ pc' = "vesa")
                  => /\ Len(vesa_dmt_modes') = k + 1
                     /\ \A i \in 1..k : vesa_dmt_modes'[i] = vesa_dmt_modes[i]
                     /\ vesa_dmt_modes'[k + 1].size
                          = <<b.hor_pixels, b.ver_pixels>>
                     /\ vesa_dmt_modes'[k + 1].pixel_khz
                          = b.pixel_clock \div 10
                     /\ vesa_dmt_modes'[k + 1].sync_polarity[1]
                          = (IF b.hor_sync_polarity = "POSITIVE" THEN 1 ELSE -1)]_vars

\* the last two blocks read are both the block 640 x 480 @ 60Hz, read
\* with records in the CEA-861 dict: each gave a record of its own
C24_Witness ==
    /\ pc = "vesa"
    /\ n = MaxBlocks
    /\ DOMAIN cta_vic_mode # {}
    /\ Len(vesa_dmt_modes) = n
    /\ vesa_src[n - 1] = V_640_480_60
    /\ vesa_src[n] = V_640_480_60
    /\ vesa_dmt_modes[n - 1] = vesa_dmt_modes[n]
    /\ vesa_dmt_modes[n].size = <<640, 480>>

\* 2 for the scan-type token Int, 1 for Prog
RowScale(r1) == IF r1.scan = "Int" THEN 2 ELSE 1

\* the record m holds the values of the Table-1 row r1
FromRow1(m, r1) ==
    /\ m.size = <<r1.w, r1.h>>
    /\ m.scan_size = <<r1.tw, r1.th>>
    /\ m.doubling = <<0, 1 - RowScale(r1)>>
    /\ m.pixel_khz = r1.clk \div 10
    /\ Nearest(m.nominal_hz, r1.fv, 10000)

\* the record m holds the sync values of the Table-2 row r2, computed from
\* the size of the Table-1 row r1, and r2 passes its checks against the
\* scan_size of r1
FromRow2(m, r1, r2) ==
    /\ m.sync_start = <<r1.w + r2.hfp, r1.h + r2.vfp * RowScale(r1)>>
    /\ m.sync_end = <<r1.w + r2.hfp + r2.hsw,
                      r1.h + (r2.vfp + r2.vsw) * RowScale(r1)>>
    /\ m.sync_polarity = <<Sign(r2.hpol), Sign(r2.vpol)>>
    /\ r1.tw = m.sync_end[1] + r2.hbp
    /\ r1.th - (m.sync_end[2] + r2.vbp * RowScale(r1)) \in 0..2

\* the dict the Table-2 pass left holds one record per VIC named in Table 1,
\* with the values of the last Table-1 row and of the last Table-2 row
\* naming the VIC; the first array written has one entry per such VIC
LastRows ==
    /\ pc \in {"table3", "vesa", "open", "emit_cta", "emit_vesa", "done"}
         => /\ DOMAIN pre3 = Named1
            /\ \A v \in Named1 :
                 /\ FromRow1(pre3[v], applied[v].row.t1)
                 /\ applied[v].cnt.t2 > 0
                      => FromRow2(pre3[v], applied[v].row.t1,
                                  applied[v].row.t2)
    /\ Written => Len(output[1].modes) = Cardinality(Named1)

\* C25: with a VIC named by several Table-1 rows or several Table-2 rows the
\* dict keeps one record for the VIC; every row that completes, the first
\* for a VIC or a later one, has passed its checks and left its values in
\* the record; after the Table-2 pass the record holds size, scan_size,
\* doubling, pixel_khz and nominal_hz of the last Table-1 row and
\* sync_start, sync_end and sync_polarity of the last Table-2 row, which
\* was checked against the scan_size of the last Table-1 row.
C25_LastRowWins ==
    [][/\ (Reads(1) /\ pc' = "table1") =>
            LET row == cur'.row
            IN  /\ row.tw = row.w + row.hb
                /\ 10 * row.th = 10 * row.h + row.vb10 * RowScale(row)
                /\ DOMAIN cta_vic_mode' =
                     DOMAIN cta_vic_mode \cup {row.vics[i] : i \in 1..Len(row.vics)}
                /\ \A i \in 1..Len(row.vics) :
                     FromRow1(cta_vic_mode'[row.vics[i]], row)
       /\ (Reads(2) /\ pc' = "table2") =>
            LET row == cur'.row
            IN  /\ DOMAIN cta_vic_mode' = DOMAIN cta_vic_mode
                /\ \A i \in 1..Len(row.vics) :
                     /\ FromRow1(cta_vic_mode'[row.vics[i]],
                                 applied[row.vics[i]].row.t1)
                     /\ FromRow2(cta_vic_mode'[row.vics[i]],
                                 applied[row.vics[i]].row.t1, row)
       /\ LastRows']_vars

\* VICs 8 and 9 were named by two Table-1 rows (262, then 263 lines) and by
\* two Table-2 rows (front porch 4, then 5); the record written for VIC 9
\* has the 263 lines and the front porch 5
C25_Witness ==
    /\ pc = "done"
    /\ Named1 = {8, 9}
    /\ applied[9].cnt.t1 = 2 /\ applied[9].row.t1 = T1_8_9b
    /\ applied[9].cnt.t2 = 2 /\ applied[9].row.t2 = T2_8_9b
    /\ Len(output[1].modes) = 2
    /\ output[1].modes[2].scan_size = <<1716, 263>>
    /\ output[1].modes[2].sync_start = <<1478, 245>>

\* C26: each VIC has a record of its own, also the VICs that one Table-1 or
\* Table-2 row lists together: reading a Table-3 row creates and removes no
\* record and changes no record but that of the VIC the row names.
C26_SeparateRecords ==
    [][Reads(3) =>
         /\ DOMAIN cta_vic_mode' = DOMAIN cta_vic_mode
         /\ \A u \in DOMAIN cta_vic_mode :
              (cur'.row.vic.kind # "int" \/ u # cur'.row.vic.val)
                => cta_vic_mode'[u] = cta_vic_mode[u]]_vars

\* the row of VIC 6 has completed, halving the record of VIC 6; the record
\* of VIC 7, set by the same Table-1 and Table-2 rows, was equal to it
\* before and keeps the Table-1 width
C26_Witness ==
    /\ pc = "table3"
    /\ cur = [table |-> 3, row |-> T3_6]
    /\ 6 \in DOMAIN applied /\ 7 \in DOMAIN applied
    /\ applied[6].row.t1 = T1_6_7 /\ applied[7].row.t1 = T1_6_7
    /\ applied[6].row.t2 = T2_6_7 /\ applied[7].row.t2 = T2_6_7
    /\ applied[7].cnt.t3 = 0
    /\ pre3[6] = pre3[7]
    /\ cta_vic_mode[7] = pre3[7]
    /\ cta_vic_mode[6].size = <<720, 480>>
    /\ cta_vic_mode[6].aspect = <<4, 3>>
    /\ cta_vic_mode[7].size = <<1440, 480>>
    /\ cta_vic_mode[7].aspect = <<0, 0>>

\* C27 as claimed: a Table-3 row with a parenthesized doubled name, read for
\* a record already corrected for pixel doubling, aborts and does not halve
\* size.h, scan_size.h, sync_start.h, sync_end.h and pixel_khz again; no
\* record is halved more than once.
C27_Original ==
    [][/\ (/\ Reads(3)
           /\ HasRecord(cur'.row)
           /\ Doubled(cur'.row)
           /\ cta_vic_mode[cur'.row.vic.val].doubling[1] = 1)
            => /\ pc' = "aborted"
               /\ Five(cta_vic_mode'[cur'.row.vic.val])
                    = Five(cta_vic_mode[cur'.row.vic.val])
       /\ \A v \in DOMAIN applied' : applied'[v].halved <= 1]_vars

\* a <= b <= c <= d
Chain(a, b, c, d) == a <= b /\ b <= c /\ c <= d

\* size <= sync_start <= sync_end <= scan_size on axis i of record m
ChainOn(m, i) == Chain(m.size[i], m.sync_start[i], m.sync_end[i], m.scan_size[i])

\* C28 as claimed: every record written to the first array has
\* size <= sync_start <= sync_end <= scan_size on both axes (the fields of
\* all rows of the model are non-negative).
C28_Original ==
    Written => \A i \in 1..Len(output[1].modes) :
                 ChainOn(output[1].modes[i], 1) /\ ChainOn(output[1].modes[i], 2)

\* C29 as claimed: a non-skipped Table-3 row completes only if its VIC has
\* a record, the width of its name (the parenthesized one when present) and
\* the height equal the size of the last Table-1 row of the VIC, and a
\* parenthesized width is twice the plain width.
C29_Original ==
    [][(Reads(3) /\ ~Skipped(cur'.row) /\ pc' = "table3")
         => LET row == cur'.row
                r1 == applied[row.vic.val].row.t1
            IN  /\ HasRecord(row)
                /\ row.name.v = r1.h
                /\ (IF row.name.paren THEN row.name.x ELSE row.name.h) = r1.w
                /\ row.name.paren => row.name.x = 2 * row.name.h]_vars

\* the values of record m that the claim says the correction leaves alone
Upright(m) == <<m.size[2], m.scan_size[2], m.sync_start[2], m.sync_end[2],
                m.sync_polarity, m.doubling[2], m.nominal_hz>>

\* C30: a Table-3 row, with or without the pixel-doubling correction and
\* whether it completes or aborts, leaves size.v, scan_size.v, sync_start.v,
\* sync_end.v, sync_polarity, doubling.v and nominal_hz of the record as
\* they were; a row that completes with the correction has halved the
\* width and set doubling.h, nothing else of doubling.
C30_VerticalKept ==
    [][(Reads(3) /\ HasRecord(cur'.row)) =>
         LET old == cta_vic_mode[cur'.row.vic.val]
             new == cta_vic_mode'[cur'.row.vic.val]
         IN  /\ Upright(new) = Upright(old)
             /\ (Doubled(cur'.row) /\ pc' = "table3")
                  => /\ 2 * new.size[1] = old.size[1]
                     /\ new.doubling = <<1, old.doubling[2]>>]_vars

\* the row of VIC 8 (720(1440)x240p) has completed on the record of 263
\* lines: the width is halved, the vertical values are those of Tables 1, 2
C30_Witness ==
    /\ pc = "table3"
    /\ cur = [table |-> 3, row |-> T3_8]
    /\ 8 \in DOMAIN applied
    /\ applied[8].row.t1 = T1_8_9b
    /\ applied[8].row.t2 = T2_8_9b
    /\ cta_vic_mode[8].size = <<720, 240>>
    /\ cta_vic_mode[8].scan_size = <<858, 263>>
    /\ cta_vic_mode[8].sync_start = <<739, 245>>
    /\ cta_vic_mode[8].sync_end = <<801, 248>>
    /\ Upright(cta_vic_mode[8]) = Upright(pre3[8])
    /\ cta_vic_mode[8].doubling = <<1, 0>>

====
